---- MODULE Spec2Model ----
\* A model of src/final.py: the Query Executor (execute_sql_query), the Chart
\* Generator (generate_visualisation, execute_visualisation_code) and the Agent
\* Loop (main_agent), with the world they act on: the DuckDB engine, the chart
\* model, the output directory and the chat model's scripted responses.
\*
\* Taken as given: a call of either hosted model returns a response (no network
\* failure, each chart-model response has text content); the values in rows are
\* JSON-serializable; generated code acts through df and fig only; nothing
\* outside the program removes files from the output directory.
\* One turn is modelled: main_agent keeps no state across turns.
EXTENDS Integers, Sequences, FiniteSets, TLC

VARIABLES
    pc,            \* main_agent: AWAITING_MODEL, DISPATCHING_TOOLS, DONE, RAISED
    messages,      \* main_agent: the conversation transcript
    results,       \* main_agent: the retained outcome of execute_sql_query
    viz_result,    \* main_agent: the retained outcome of execute_visualisation_code
    pending,       \* main_agent: the requests of msg.tool_calls not yet dispatched
    output,        \* main_agent: the returned payload
    exc,           \* the exception that left main_agent, or None
    round_trips,   \* number of client.chat.completions.create calls made by main_agent
    sent,          \* main_agent: the messages argument of the latest model call
    chart_source,  \* the sql_result argument of the call that returned viz_result
    sql_query,     \* the argument of the latest execute_sql_query invocation
    sql_out,       \* the value the latest execute_sql_query invocation returned
    sql_calls,     \* number of execute_sql_query invocations
    conn_opened,   \* number of duckdb.connect calls that returned a connection
    conn_open,     \* connections opened and not closed by conn.close()
    executed,      \* number of statements handed to c.execute
    vpc,           \* execute_visualisation_code: idle, loop, return
    vmessages,     \* execute_visualisation_code: the chart-model conversation
    tries,         \* execute_visualisation_code: the retry counter
    result,        \* execute_visualisation_code: outcome of the latest attempt
    attempts,      \* execute_visualisation_code: the outcomes of this call's attempts, in order
    vcalls,        \* execute_visualisation_code: chart-model calls made by this call
    sql_result,    \* execute_visualisation_code: the sql_result argument
    vsent,         \* execute_visualisation_code: the messages argument of the latest model call
    code,          \* execute_visualisation_code: the code of the latest model response
    issued,        \* identifiers returned in success outcomes, in order of return
    uuids,         \* number of uuid.uuid4() values drawn so far
    disk           \* the files under OUTPUT_DIR

vars ==
    << pc, messages, results, viz_result, pending, output, exc, round_trips,
       sent, chart_source,
       sql_query, sql_out, sql_calls, conn_opened, conn_open, executed,
       vpc, vmessages, tries, result, attempts, vcalls, sql_result, vsent, code,
       issued, uuids, disk >>

agentVars ==
    << pc, messages, results, viz_result, pending, output, exc, round_trips,
       sent, chart_source >>

sqlVars ==
    << sql_query, sql_out, sql_calls, conn_opened, conn_open, executed >>

vizVars ==
    << vpc, vmessages, tries, result, attempts, vcalls, sql_result, vsent, code,
       issued, uuids, disk >>

\* ------------------------------------------------------------------
\* Python values. Every value is a record, so that any two compare.
\* ------------------------------------------------------------------
None ==
    [py |-> "None"]

PyStr(s) ==
    [py |-> "str", s |-> s]

\* Python truthiness of None, a str or a dict (a non-empty dict is true).
Truthy(v) ==
    /\ v # None
    /\ v # PyStr("")

Min(a, b) ==
    IF a <= b THEN a ELSE b

Last(s) ==
    s[Len(s)]

\* dict.get(key): the value, or None when the key is absent.
Get(d, key) ==
    IF key \in DOMAIN d THEN d[key] ELSE None

\* json.dumps: the value as JSON text, here the value tagged as text.
json_dumps(v) ==
    [json |-> v]

\* ------------------------------------------------------------------
\* The DuckDB engine (external): what each statement does when executed.
\* ------------------------------------------------------------------
DB_PATH ==
    "database/HDB_data.db"

OUTPUT_DIR ==
    "visualisation_outputs"

\* fetchmany(1000)
RowCap ==
    1000

\* How many rows the widest table of the model has beyond the cap.
Excess ==
    1

SQL_COUNT ==
    "SELECT COUNT(*) FROM resale_data_2017_to_2025"

SQL_TOWNS ==
    "SELECT town, AVG(resale_price) FROM resale_data_2017_to_2025 GROUP BY town"

SQL_NONE ==
    "SELECT * FROM resale_data_2017_to_2025 WHERE 1 = 0"

SQL_CAP ==
    "SELECT id FROM resale_data_2017_to_2025 LIMIT 1000"

SQL_ALL ==
    "SELECT id FROM resale_data_2017_to_2025"

SQL_SET ==
    "SET threads = 1"

SQL_SYNTAX ==
    "SELEC * FORM resale_data_2017_to_2025"

SQL_MISSING ==
    "SELECT * FROM no_such_table"

Statements ==
    { SQL_COUNT, SQL_TOWNS, SQL_NONE, SQL_CAP, SQL_ALL, SQL_SET, SQL_SYNTAX, SQL_MISSING }

\* c.execute(sql): raises, or leaves the rows of the result and c.description
\* (described: c.description is not None; description: its column names).
Engine(sql) ==
    CASE sql = SQL_COUNT ->
           [raises |-> FALSE, described |-> TRUE, description |-> << "count_star()" >>,
            rows |-> << << RowCap + Excess >> >>]
      [] sql = SQL_TOWNS ->
           [raises |-> FALSE, described |-> TRUE, description |-> << "town", "avg(resale_price)" >>,
            rows |-> << << "ANG MO KIO", 450000 >>, << "BEDOK", 430000 >> >>]
      [] sql = SQL_NONE ->
           [raises |-> FALSE, described |-> TRUE, description |-> << "town", "resale_price" >>,
            rows |-> << >>]
      [] sql = SQL_CAP ->
           [raises |-> FALSE, described |-> TRUE, description |-> << "id" >>,
            rows |-> [i \in 1..RowCap |-> << i >>]]
      [] sql = SQL_ALL ->
           [raises |-> FALSE, described |-> TRUE, description |-> << "id" >>,
            rows |-> [i \in 1..(RowCap + Excess) |-> << i >>]]
      [] sql = SQL_SET ->
           [raises |-> FALSE, described |-> FALSE, description |-> << >>, rows |-> << >>]
      [] sql = SQL_SYNTAX ->
           [raises |-> TRUE, error |-> "Parser Error: syntax error at or near SELEC"]
      [] OTHER ->
           [raises |-> TRUE, error |-> "Catalog Error: Table no_such_table does not exist"]

\* cursor.fetchall() in place of fetchmany: every row of the result.
fetchall(rows, size) ==
    rows

\* cursor.fetchmany(size): the first size rows of the result, fewer when it is shorter.
fetchmany(rows, size) ==
    SubSeq(rows, 1, Min(Len(rows), size))

\* ------------------------------------------------------------------
\* execute_sql_query (src/final.py 133-146)
\* ------------------------------------------------------------------
InputError ==
    [error |-> "No SQL query provided"]

ExecutionError(msg) ==
    [error |-> "Error executing SQL query: " \o msg]

ConnectError ==
    ExecutionError("IO Error: Cannot open file " \o DB_PATH)

QueryResult(cols, rows) ==
    [result_df |-> [columns |-> cols, rows |-> rows]]

IsQueryResult(r) ==
    "result_df" \in DOMAIN r

IsError(r) ==
    "error" \in DOMAIN r

\* execute_sql_query without its try/except: an engine failure leaves the function
\* as an exception in place of a returned outcome.
execute_sql_query_no_try(sql, db_up) ==
    IF ~Truthy(sql)
    THEN [out |-> InputError, opened |-> 0, closed |-> 0, executed |-> 0]
    ELSE IF ~db_up
    THEN [out |-> [raised |-> "IO Error: Cannot open file " \o DB_PATH],
          opened |-> 0, closed |-> 0, executed |-> 0]
    ELSE LET r == Engine(sql.s)
         IN  IF r.raises
             THEN [out |-> [raised |-> r.error],
                   opened |-> 1, closed |-> 0, executed |-> 1]
             ELSE [out |-> QueryResult(IF r.described THEN r.description ELSE << >>,
                                       fetchmany(r.rows, RowCap)),
                   opened |-> 1, closed |-> 1, executed |-> 1]

\* execute_sql_query guarding with (sql_query is None) in place of (not sql_query).
execute_sql_query_none_only(sql, db_up) ==
    IF sql = None
    THEN [out |-> InputError, opened |-> 0, closed |-> 0, executed |-> 0]
    ELSE IF ~db_up
    THEN [out |-> ConnectError,
          opened |-> 0, closed |-> 0, executed |-> 0]
    ELSE LET r == Engine(sql.s)
         IN  IF r.raises
             THEN [out |-> ExecutionError(r.error),
                   opened |-> 1, closed |-> 0, executed |-> 1]
             ELSE [out |-> QueryResult(IF r.described THEN r.description ELSE << >>,
                                       fetchmany(r.rows, RowCap)),
                   opened |-> 1, closed |-> 1, executed |-> 1]

\* The returned outcome, with what the call did to the data source: connections
\* opened and closed, statements executed. db_up: duckdb.connect succeeds.
execute_sql_query(sql, db_up) ==
    IF ~Truthy(sql)
    THEN [out |-> InputError, opened |-> 0, closed |-> 0, executed |-> 0]
    ELSE IF ~db_up
    THEN [out |-> ConnectError,
          opened |-> 0, closed |-> 0, executed |-> 0]
    ELSE LET r == Engine(sql.s)
         IN  IF r.raises
             THEN [out |-> ExecutionError(r.error),
                   opened |-> 1, closed |-> 0, executed |-> 1]
             ELSE [out |-> QueryResult(IF r.described THEN r.description ELSE << >>,
                                       fetchmany(r.rows, RowCap)),
                   opened |-> 1, closed |-> 1, executed |-> 1]

\* The values a caller may pass as sql_query.
SqlInputs ==
    { None, PyStr("") } \cup { PyStr(s) : s \in Statements }

\* ------------------------------------------------------------------
\* The chart model (external): the code it may answer with, as lines of text,
\* and what each does when executed against df.
\* ------------------------------------------------------------------
CODE_FIG ==
    << "[fence]python", "fig = px.bar(df)", "[fence]" >>

CODE_NOFIG ==
    << "chart = px.bar(df)" >>

CODE_ASSERT ==
    << "assert df.shape[1] > 99", "fig = px.bar(df)" >>

Codes ==
    { CODE_FIG, CODE_NOFIG, CODE_ASSERT }

\* What the output directory and the renderer do on a save: both files are
\* written, or the PNG is written and writing the JSON raises.
SaveOutcomes ==
    { "saved", "json_raises" }

IsFence(line) ==
    line \in { "[fence]python", "[fence]" }

IsCode(line) ==
    ~IsFence(line)

\* python_code.replace(FENCE + "python", "").replace(FENCE, "").strip(), FENCE
\* being the three-backquote Markdown fence, written [fence] in the model.
Clean(python_code) ==
    SelectSeq(python_code, IsCode)

\* exec(python_code, {}, local_ns): raises with a message (str(e)), or ends with
\* or without a fig in local_ns.
Exec(python_code) ==
    CASE python_code = << "fig = px.bar(df)" >> ->
           [raises |-> FALSE, fig |-> TRUE]
      [] python_code = << "chart = px.bar(df)" >> ->
           [raises |-> FALSE, fig |-> FALSE]
      [] Len(python_code) > 0 /\ python_code[1] = "assert df.shape[1] > 99" ->
           [raises |-> TRUE, error |-> ""]
      [] OTHER ->
           [raises |-> TRUE, error |-> "invalid syntax (<string>, line 1)"]

\* ------------------------------------------------------------------
\* generate_visualisation (src/final.py 36-81)
\* ------------------------------------------------------------------
MaxTries ==
    3

Traceback ==
    "Traceback (most recent call last): ..."

\* One identifier drawn when the module is loaded and used by every call.
uuid4_once(drawn) ==
    1

\* str(uuid.uuid4()): the value of the next draw, given how many were drawn;
\* draws are pairwise distinct.
uuid4(drawn) ==
    drawn + 1

\* os.path.join(OUTPUT_DIR, f"{result_id}{suffix}")
Path(result_id, suffix) ==
    [dir |-> OUTPUT_DIR, id |-> result_id, suffix |-> suffix]

\* The except branch returning the path it was about to write.
ExceptionOutcome_with_path(error) ==
    [success |-> FALSE, error |-> error, traceback |-> Traceback,
     fig_path |-> Path(0, "_fig.json")]

\* The except branch's outcome.
ExceptionOutcome(error) ==
    [success |-> FALSE, error |-> error, traceback |-> Traceback, fig_path |-> None]

IsSuccess(r) ==
    /\ "success" \in DOMAIN r
    /\ r.success

IsFailure(r) ==
    /\ "success" \in DOMAIN r
    /\ ~r.success

NoFigOutcome ==
    [success |-> FALSE, error |-> "No fig variable created."]

SuccessOutcome(result_id, python_code) ==
    [success |-> TRUE, uuid |-> result_id, code |-> python_code,
     fig_path |-> Path(result_id, "_fig.json")]

\* The files written by a save that gets as far as save says.
SavedFiles(result_id, save) ==
    IF save = "saved"
    THEN { Path(result_id, ".png"), Path(result_id, "_fig.json") }
    ELSE { Path(result_id, ".png") }

\* generate_visualisation running the code before it builds df from sql_result.
generate_visualisation_no_df(sql_res, python_code, result_id, save) ==
    LET cleaned == Clean(python_code)
        ran == Exec(cleaned)
    IN  IF ran.raises
        THEN [result |-> ExceptionOutcome(ran.error), files |-> { }]
        ELSE IF ~ran.fig
        THEN [result |-> NoFigOutcome, files |-> { }]
        ELSE IF save = "saved"
        THEN [result |-> SuccessOutcome(result_id, cleaned),
              files |-> SavedFiles(result_id, save)]
        ELSE [result |-> ExceptionOutcome("[Errno 28] No space left on device"),
              files |-> SavedFiles(result_id, save)]

\* The returned outcome and the files written on the way.
generate_visualisation(sql_res, python_code, result_id, save) ==
    IF sql_res = None
    THEN [result |-> ExceptionOutcome("'NoneType' object is not subscriptable"),
          files |-> { }]
    ELSE IF ~IsQueryResult(sql_res)
    THEN [result |-> ExceptionOutcome("'result_df'"), files |-> { }]
    ELSE LET cleaned == Clean(python_code)
             ran == Exec(cleaned)
         IN  IF ran.raises
             THEN [result |-> ExceptionOutcome(ran.error), files |-> { }]
             ELSE IF ~ran.fig
             THEN [result |-> NoFigOutcome, files |-> { }]
             ELSE IF save = "saved"
             THEN [result |-> SuccessOutcome(result_id, cleaned),
                   files |-> SavedFiles(result_id, save)]
             ELSE [result |-> ExceptionOutcome("[Errno 28] No space left on device"),
                   files |-> SavedFiles(result_id, save)]

\* ------------------------------------------------------------------
\* Bounds
\* ------------------------------------------------------------------
\* execute_sql_query invocations made by the Query Executor's callers in SpecSql.
MaxSqlCalls ==
    3

\* Tool invocation requests the chat model makes in one turn, over all its responses.
MaxToolCalls ==
    3

SystemPrompt ==
    "You are an agent that answers questions about HDB resale prices."

UserInputs ==
    { "How has average resale price changed over the years?" }

\* main_agent(user_input) up to the loop: lines 195-218, and the world before it.
Init ==
    /\ \E user_input \in UserInputs :
         messages = << [role |-> "system", content |-> PyStr(SystemPrompt)],
                       [role |-> "user", content |-> PyStr(user_input)] >>
    /\ results = None
    /\ viz_result = None
    /\ pc = "AWAITING_MODEL"
    /\ pending = << >>
    /\ output = None
    /\ exc = None
    /\ round_trips = 0
    /\ sent = << >>
    /\ chart_source = None
    /\ sql_query = None
    /\ sql_out = None
    /\ sql_calls = 0
    /\ conn_opened = 0
    /\ conn_open = 0
    /\ executed = 0
    /\ vpc = "idle"
    /\ vmessages = << >>
    /\ tries = 0
    /\ result = None
    /\ attempts = << >>
    /\ vcalls = 0
    /\ sql_result = None
    /\ vsent = << >>
    /\ code = << >>
    /\ issued = << >>
    /\ uuids = 0
    /\ disk = { }

\* One invocation execute_sql_query(sql): its return value and its effects.
SqlCall(sql, db_up) ==
    LET r == execute_sql_query(sql, db_up)
    IN  /\ sql_query' = sql
        /\ sql_out' = r.out
        /\ sql_calls' = sql_calls + 1
        /\ conn_opened' = conn_opened + r.opened
        /\ conn_open' = conn_open + r.opened - r.closed
        /\ executed' = executed + r.executed

\* ------------------------------------------------------------------
\* The chat model (external): the responses it may give.
\* ------------------------------------------------------------------
EmptyDict ==
    << >>

\* The JSON-encoded argument strings a request may carry; the last is not JSON.
ArgumentTexts ==
    { json_dumps(EmptyDict),
      json_dumps([sql_query |-> PyStr("")]),
      json_dumps([sql_query |-> PyStr(SQL_SYNTAX)]),
      json_dumps([sql_query |-> PyStr(SQL_COUNT)]),
      json_dumps([sql_query |-> PyStr(SQL_TOWNS)]),
      json_dumps([instructions |-> PyStr("bar chart of the result")]),
      [text |-> "{sql_query: "] }

IsJson(text) ==
    "json" \in DOMAIN text

\* json.loads of a well-formed text
json_loads(text) ==
    text.json

ToolNames ==
    { None, PyStr("execute_sql_query"), PyStr("execute_visualisation_code"),
      PyStr("get_weather") }

\* The requests the model makes: the declared tools with arguments of their
\* schema or none, an undeclared tool, a request without a name, and a request
\* whose arguments are cut short.
CallShapes ==
    { c \in [name : ToolNames, arguments : ArgumentTexts] :
        \/ /\ c.name = PyStr("execute_sql_query")
           /\ \/ ~IsJson(c.arguments)
              \/ c.arguments = json_dumps(EmptyDict)
              \/ "sql_query" \in DOMAIN c.arguments.json
        \/ /\ c.name = PyStr("execute_visualisation_code")
           /\ IsJson(c.arguments)
           /\ "instructions" \in DOMAIN c.arguments.json
        \/ /\ c.name \in { None, PyStr("get_weather") }
           /\ c.arguments = json_dumps(EmptyDict) }

Texts ==
    { "Prices rose steadily from 2017 to 2025.", "There are 1001 rows." }

RECURSIVE Requested(_)
\* The number of tool invocation requests in a transcript.
Requested(msgs) ==
    IF msgs = << >>
    THEN 0
    ELSE Requested(Tail(msgs))
         + (IF "tool_calls" \in DOMAIN Head(msgs) THEN Len(Head(msgs).tool_calls) ELSE 0)

\* The request lists of a response: one to n requests, identified first + 1 ...
CallLists(first, n) ==
    UNION { { [i \in 1..k |-> [id |-> first + i, name |-> f[i].name,
                               arguments |-> f[i].arguments]] :
              f \in [1..k -> CallShapes] } : k \in 1..n }

\* ------------------------------------------------------------------
\* main_agent (src/final.py 194-277)
\* ------------------------------------------------------------------
ToolMessage(call, content) ==
    [role |-> "tool", tool_call_id |-> call.id, content |-> content]

\* The fields of the returned payload taken from the retained values.
InsightsOf(msg) ==
    msg.content

ResultDfOf(res) ==
    Get(res, "result_df")

VisualisationOf(viz) ==
    Get(viz, "fig_path")

\* The payload with result_df guarded by viz_result in place of results.
Payload_wrong_guard(msg, res, viz) ==
    [insights |-> InsightsOf(msg),
     result_df |-> IF Truthy(viz) THEN ResultDfOf(res) ELSE None,
     visualisation |-> IF Truthy(viz) THEN VisualisationOf(viz) ELSE None]

\* Lines 273-277.
Payload(msg, res, viz) ==
    [insights |-> InsightsOf(msg),
     result_df |-> IF Truthy(res) THEN ResultDfOf(res) ELSE None,
     visualisation |-> IF Truthy(viz) THEN VisualisationOf(viz) ELSE None]

\* Lines 220-234: the model answers with tool invocation requests.
ModelRequestsTools ==
    /\ pc = "AWAITING_MODEL"
    /\ \E calls \in CallLists(Requested(messages), MaxToolCalls - Requested(messages)) :
         /\ messages' = Append(messages,
                [role |-> "assistant", content |-> None, tool_calls |-> calls])
         /\ pending' = calls
    /\ pc' = "DISPATCHING_TOOLS"
    /\ round_trips' = round_trips + 1
    /\ sent' = messages
    /\ UNCHANGED << results, viz_result, output, exc, chart_source, sqlVars, vizVars >>

\* The else branch without its return: the loop calls the model again.
ModelAnswers_no_return ==
    /\ pc = "AWAITING_MODEL"
    /\ \E text \in Texts :
         messages' = Append(messages,
              [role |-> "assistant", content |-> PyStr(text), tool_calls |-> << >>])
    /\ round_trips' = round_trips + 1
    /\ sent' = messages
    /\ UNCHANGED << pc, output, results, viz_result, pending, exc, chart_source,
                    sqlVars, vizVars >>

\* Lines 220-234 and 268-277: the model answers with text alone; the turn ends.
ModelAnswers ==
    /\ pc = "AWAITING_MODEL"
    /\ \E text \in Texts :
         LET msg == [role |-> "assistant", content |-> PyStr(text), tool_calls |-> << >>]
         IN  /\ messages' = Append(messages, msg)
             /\ output' = Payload(msg, results, viz_result)
    /\ pc' = "DONE"
    /\ round_trips' = round_trips + 1
    /\ sent' = messages
    /\ UNCHANGED << results, viz_result, pending, exc, chart_source, sqlVars, vizVars >>

\* The request the for loop of line 235 is at.
Dispatching ==
    /\ pc = "DISPATCHING_TOOLS"
    /\ vpc = "idle"
    /\ pending # << >>

\* The end of one iteration of the for loop: the next request, or the next model call.
NextRequest ==
    /\ pending' = Tail(pending)
    /\ pc' = IF Tail(pending) = << >> THEN "AWAITING_MODEL" ELSE "DISPATCHING_TOOLS"

\* Line 237: json.loads raises on arguments that are not JSON.
DispatchBadArguments ==
    /\ Dispatching
    /\ ~IsJson(Head(pending).arguments)
    /\ pc' = "RAISED"
    /\ exc' = PyStr("JSONDecodeError")
    /\ UNCHANGED << messages, results, viz_result, pending, output, round_trips,
                    sent, chart_source, sqlVars, vizVars >>

\* The branch storing its message over the transcript's last message in place
\* of appending it.
DispatchMissingName_overwrites ==
    /\ Dispatching
    /\ IsJson(Head(pending).arguments)
    /\ ~Truthy(Head(pending).name)
    /\ messages' = [messages EXCEPT ![Len(messages)] =
                        ToolMessage(Head(pending), PyStr("Tool call missing name."))]
    /\ NextRequest
    /\ UNCHANGED << results, viz_result, output, exc, round_trips, sent, chart_source,
                    sqlVars, vizVars >>

\* Lines 239-245.
DispatchMissingName ==
    /\ Dispatching
    /\ IsJson(Head(pending).arguments)
    /\ ~Truthy(Head(pending).name)
    /\ messages' = Append(messages,
            ToolMessage(Head(pending), PyStr("Tool call missing name.")))
    /\ NextRequest
    /\ UNCHANGED << results, viz_result, output, exc, round_trips, sent, chart_source,
                    sqlVars, vizVars >>

\* Lines 247-256. Line 251 reads results['result_df'] and raises KeyError on an
\* error outcome, after results is assigned and before the message is appended.
DispatchSql ==
    /\ Dispatching
    /\ IsJson(Head(pending).arguments)
    /\ Head(pending).name = PyStr("execute_sql_query")
    /\ \E db_up \in BOOLEAN :
         SqlCall(Get(json_loads(Head(pending).arguments), "sql_query"), db_up)
    /\ results' = sql_out'
    /\ IF IsQueryResult(sql_out')
       THEN /\ messages' = Append(messages,
                   ToolMessage(Head(pending), json_dumps(sql_out')))
            /\ NextRequest
            /\ UNCHANGED exc
       ELSE /\ pc' = "RAISED"
            /\ exc' = PyStr("KeyError")
            /\ UNCHANGED << messages, pending >>
    /\ UNCHANGED << viz_result, output, round_trips, sent, chart_source, vizVars >>

\* The dispatch passing the Query Result of the turn's first execute_sql_query
\* call (the first one serialized in the transcript) in place of results.
DispatchViz_stale ==
    /\ Dispatching
    /\ IsJson(Head(pending).arguments)
    /\ Head(pending).name = PyStr("execute_visualisation_code")
    /\ vpc' = "loop"
    /\ LET outcomes == { i \in DOMAIN messages :
                           /\ messages[i].role = "tool"
                           /\ "json" \in DOMAIN messages[i].content
                           /\ "result_df" \in DOMAIN messages[i].content.json }
           stale == IF outcomes = { }
                    THEN results
                    ELSE messages[CHOOSE i \in outcomes :
                                    \A j \in outcomes : i <= j].content.json
       IN  /\ sql_result' = stale
           /\ vmessages' = << [role |-> "user",
                               content |-> [prompt |-> json_dumps(stale),
                                            instructions |->
                                                Get(json_loads(Head(pending).arguments),
                                                    "instructions")]] >>
    /\ tries' = 0
    /\ vcalls' = 0
    /\ attempts' = << >>
    /\ result' = None
    /\ vsent' = << >>
    /\ code' = << >>
    /\ UNCHANGED << agentVars, sqlVars, issued, uuids, disk >>

\* Lines 258-261 and 148-165: execute_visualisation_code is entered.
DispatchViz ==
    /\ Dispatching
    /\ IsJson(Head(pending).arguments)
    /\ Head(pending).name = PyStr("execute_visualisation_code")
    /\ vpc' = "loop"
    /\ sql_result' = results
    /\ vmessages' = << [role |-> "user",
                        content |-> [prompt |-> json_dumps(results),
                                     instructions |-> Get(json_loads(Head(pending).arguments),
                                                          "instructions")]] >>
    /\ tries' = 0
    /\ vcalls' = 0
    /\ attempts' = << >>
    /\ result' = None
    /\ vsent' = << >>
    /\ code' = << >>
    /\ UNCHANGED << agentVars, sqlVars, issued, uuids, disk >>

\* The iteration with the conversation rebuilt on a failure from the prompt and
\* the latest feedback: earlier feedback is dropped.
VizAttempt_keeps_last ==
    /\ vpc = "loop"
    /\ tries < MaxTries
    /\ \E answer \in Codes, save \in SaveOutcomes :
         LET g == generate_visualisation(sql_result, answer, uuid4(uuids), save)
         IN  /\ code' = answer
             /\ result' = g.result
             /\ attempts' = Append(attempts, g.result)
             /\ disk' = disk \cup g.files
             /\ IF g.result.success
                THEN /\ vpc' = "return"
                     /\ issued' = Append(issued, g.result.uuid)
                     /\ UNCHANGED << vmessages, tries >>
                ELSE /\ vmessages' = << vmessages[1],
                                        [role |-> "user",
                                         content |-> [error |-> g.result.error,
                                                      code |-> answer]] >>
                     /\ tries' = tries + 1
                     /\ UNCHANGED << vpc, issued >>
    /\ vsent' = vmessages
    /\ vcalls' = vcalls + 1
    /\ uuids' = uuids + 1
    /\ UNCHANGED << agentVars, sqlVars, sql_result >>

\* Lines 167-186: one iteration of the retry loop.
VizAttempt ==
    /\ vpc = "loop"
    /\ tries < MaxTries
    /\ \E answer \in Codes, save \in SaveOutcomes :
         LET g == generate_visualisation(sql_result, answer, uuid4(uuids), save)
         IN  /\ code' = answer
             /\ result' = g.result
             /\ attempts' = Append(attempts, g.result)
             /\ disk' = disk \cup g.files
             /\ IF g.result.success
                THEN /\ vpc' = "return"
                     /\ issued' = Append(issued, g.result.uuid)
                     /\ UNCHANGED << vmessages, tries >>
                ELSE /\ vmessages' = Append(vmessages,
                            [role |-> "user",
                             content |-> [error |-> g.result.error, code |-> answer]])
                     /\ tries' = tries + 1
                     /\ UNCHANGED << vpc, issued >>
    /\ vsent' = vmessages
    /\ vcalls' = vcalls + 1
    /\ uuids' = uuids + 1
    /\ UNCHANGED << agentVars, sqlVars, sql_result >>

\* Lines 167 and 188: the retry budget is spent; the last outcome is returned.
VizExhausted ==
    /\ vpc = "loop"
    /\ tries >= MaxTries
    /\ vpc' = "return"
    /\ UNCHANGED << agentVars, sqlVars, vmessages, tries, result, attempts, vcalls,
                    sql_result, vsent, code, issued, uuids, disk >>

\* Lines 261-266: the outcome is retained and reported; the callee's locals go.
VizReturn ==
    /\ vpc = "return"
    /\ viz_result' = result
    /\ messages' = Append(messages, ToolMessage(Head(pending), json_dumps(result)))
    /\ NextRequest
    /\ vpc' = "idle"
    /\ vmessages' = << >>
    /\ tries' = 0
    /\ vcalls' = 0
    /\ attempts' = << >>
    /\ result' = None
    /\ sql_result' = None
    /\ vsent' = << >>
    /\ code' = << >>
    /\ chart_source' = sql_result
    /\ UNCHANGED << results, output, exc, round_trips, sent, sqlVars, issued, uuids, disk >>

\* Lines 239-266: no branch matches a name that is not a declared tool.
DispatchUnknown ==
    /\ Dispatching
    /\ IsJson(Head(pending).arguments)
    /\ Truthy(Head(pending).name)
    /\ Head(pending).name \notin { PyStr("execute_sql_query"),
                                   PyStr("execute_visualisation_code") }
    /\ NextRequest
    /\ UNCHANGED << messages, results, viz_result, output, exc, round_trips,
                    sent, chart_source, sqlVars, vizVars >>

Next ==
    \/ ModelRequestsTools
    \/ ModelAnswers
    \/ DispatchBadArguments
    \/ DispatchMissingName
    \/ DispatchSql
    \/ DispatchViz
    \/ VizAttempt
    \/ VizExhausted
    \/ VizReturn
    \/ DispatchUnknown

Spec ==
    Init /\ [][Next]_vars

\* A caller invokes the Query Executor on its own.
CallSql ==
    /\ sql_calls < MaxSqlCalls
    /\ \E sql \in SqlInputs, db_up \in BOOLEAN : SqlCall(sql, db_up)
    /\ UNCHANGED << agentVars, vizVars >>

NextSql ==
    CallSql

SpecSql ==
    Init /\ [][NextSql]_vars

\* ------------------------------------------------------------------
\* Properties
\* ------------------------------------------------------------------
Declared ==
    { PyStr("execute_sql_query"), PyStr("execute_visualisation_code") }

IsToolMessage(m) ==
    m.role = "tool"

IsAssistant(m) ==
    m.role = "assistant"

\* The transcript's message i is a tool result carrying a serialized outcome.
CarriesOutcome(i) ==
    /\ IsToolMessage(messages[i])
    /\ "json" \in DOMAIN messages[i].content

QueryResultAt(i) ==
    /\ CarriesOutcome(i)
    /\ IsQueryResult(messages[i].content.json)

ChartSuccessAt(i) ==
    /\ CarriesOutcome(i)
    /\ IsSuccess(messages[i].content.json)

ChartFailureAt(i) ==
    /\ CarriesOutcome(i)
    /\ IsFailure(messages[i].content.json)

\* The tool-result messages of the transcript that answer request id.
ReportsFor(id) ==
    { j \in DOMAIN messages : IsToolMessage(messages[j]) /\ messages[j].tool_call_id = id }

\* The request being dispatched is an execute_sql_query request with JSON arguments.
AtSqlRequest ==
    /\ Dispatching
    /\ IsJson(Head(pending).arguments)
    /\ Head(pending).name = PyStr("execute_sql_query")

\* C1: when the Query Executor returns an error outcome for an execute_sql_query
\* request, main_agent appends a tool-result message carrying that error for the
\* request's id, retains the outcome and goes on with the turn; no exception
\* aborts the turn.
C1_SqlErrorIsReported ==
    [][ (AtSqlRequest /\ sql_calls' = sql_calls + 1 /\ IsError(sql_out'))
        => /\ results' = sql_out'
           /\ messages' = Append(messages, ToolMessage(Head(pending), json_dumps(sql_out')))
           /\ pc' \in { "AWAITING_MODEL", "DISPATCHING_TOOLS" }
           /\ exc' = None ]_vars

\* C2: once a response's requests are dispatched, every request naming no declared
\* tool (an unknown name or no name) has exactly one tool-result message with its
\* id, appended before the next model call, and no such request fails the turn.
C2_UndeclaredToolIsReported ==
    /\ pc \in { "AWAITING_MODEL", "DONE" } =>
         \A i \in DOMAIN messages :
           IsAssistant(messages[i]) =>
             \A k \in DOMAIN messages[i].tool_calls :
               LET c == messages[i].tool_calls[k]
               IN  c.name \notin Declared =>
                     /\ Cardinality(ReportsFor(c.id)) = 1
                     /\ \A j \in ReportsFor(c.id) :
                          /\ j > i
                          /\ \A m \in (i + 1)..j : ~IsAssistant(messages[m])
    /\ pc = "RAISED" => Head(pending).name \in Declared

\* C3: when every attempt of a call of execute_visualisation_code fails, the call
\* returns after exactly 3 model calls and 3 execution attempts, and returns the
\* third attempt's outcome: success false, no artifact path, a non-empty error.
C3_ExhaustedOutcome ==
    (vpc = "return" /\ \A i \in DOMAIN attempts : ~attempts[i].success)
    => /\ vcalls = 3
       /\ Len(attempts) = 3
       /\ result = attempts[3]
       /\ ~result.success
       /\ Get(result, "fig_path") = None
       /\ result.error # ""

\* C4: when an attempt of execute_visualisation_code succeeds, it is the call's
\* first success, at attempt k <= 3; the call returns right after it with k model
\* calls made and that outcome; the identifier differs from every identifier
\* returned by another successful call; both files of every returned identifier
\* are on disk.
C4_SuccessOnAttemptK ==
    /\ (vpc = "return" /\ attempts # << >> /\ Last(attempts).success)
       => /\ Len(attempts) <= MaxTries
          /\ \A i \in 1..(Len(attempts) - 1) : ~attempts[i].success
          /\ vcalls = Len(attempts)
          /\ result = Last(attempts)
          /\ result.success
          /\ issued # << >>
          /\ Last(issued) = result.uuid
          /\ result.fig_path = Path(result.uuid, "_fig.json")
          /\ result.fig_path \in disk
          /\ Path(result.uuid, ".png") \in disk
    /\ \A i, j \in DOMAIN issued : i # j => issued[i] # issued[j]
    /\ \A i \in DOMAIN issued :
         { Path(issued[i], ".png"), Path(issued[i], "_fig.json") } \subseteq disk

C4_Witness ==
    /\ vpc = "return"
    /\ Len(attempts) = 2
    /\ result.success
    /\ Len(issued) = 2

\* C5: a chart success outcome, and any persisted file, exists only after an
\* execute_sql_query dispatch of the same turn produced a Query Result; a call of
\* the Chart Generator with no Query Result retained yields neither.
C5_ChartOnlyFromQueryResult ==
    /\ \A j \in DOMAIN messages :
         ChartSuccessAt(j) => \E i \in 1..(j - 1) : QueryResultAt(i)
    /\ (IsSuccess(viz_result) \/ IsSuccess(result) \/ disk # { })
         => /\ \E i \in DOMAIN messages : QueryResultAt(i)
            /\ pc # "RAISED" => IsQueryResult(results)
    /\ (vpc # "idle" /\ sql_result = None)
         => /\ \A i \in DOMAIN attempts : ~attempts[i].success
            /\ disk = { }

C5_Witness ==
    /\ IsSuccess(viz_result)
    /\ disk # { }
    /\ \E j \in DOMAIN messages :
         /\ ChartFailureAt(j)
         /\ \A i \in 1..(j - 1) : ~QueryResultAt(i)

\* The model's responses so far are one response requesting execute_sql_query
\* alone, for which the Query Executor produced a Query Result, and then either
\* nothing yet or a response with no requests.
QueryThenAnswer ==
    /\ Len(messages) >= 4
    /\ Len(messages[3].tool_calls) = 1
    /\ messages[3].tool_calls[1].name = PyStr("execute_sql_query")
    /\ QueryResultAt(4)
    /\ Len(messages) >= 5 => messages[5].tool_calls = << >>

\* C6: when the model requests execute_sql_query alone and then answers, the turn
\* ends without an exception and the output's result_df has exactly the columns
\* and rows the Query Executor returned for that SQL: the engine's column names
\* and rows; visualisation is absent.
C6_QueryThenAnswer ==
    QueryThenAnswer
    => /\ exc = None
       /\ Len(messages) >= 5 =>
            /\ pc = "DONE"
            /\ round_trips = 2
            /\ output.insights = messages[5].content
            /\ output.result_df = sql_out.result_df
            /\ sql_query = messages[3].tool_calls[1].arguments.json.sql_query
            /\ output.result_df.columns = Engine(sql_query.s).description
            /\ output.result_df.rows = Engine(sql_query.s).rows
            /\ output.visualisation = None

C6_Witness ==
    /\ QueryThenAnswer
    /\ pc = "DONE"
    /\ Len(output.result_df.rows) = 2

\* C7: when the model's first response carries no tool invocation requests, the
\* turn ends after exactly one model call with no tool dispatched, and the output
\* holds that response's text as insight, and neither result_df nor visualisation.
C7_DirectAnswer ==
    (Len(messages) >= 3 /\ messages[3].tool_calls = << >>)
    => /\ pc = "DONE"
       /\ exc = None
       /\ round_trips = 1
       /\ Len(messages) = 3
       /\ sql_calls = 0
       /\ uuids = 0
       /\ vpc = "idle"
       /\ output = [insights |-> messages[3].content, result_df |-> None,
                    visualisation |-> None]

C7_Witness ==
    /\ pc = "DONE"
    /\ round_trips = 1
    /\ messages[3].content = PyStr("There are 1001 rows.")

\* C8: when the retained chart outcome is a failure (either failure shape) and the
\* model stops requesting tools, the turn ends normally and the output's
\* visualisation is absent.
C8_FailedChartIsAbsent ==
    /\ (pc = "DONE" /\ IsFailure(viz_result))
         => /\ exc = None
            /\ output.visualisation = None
    /\ (pc = "RAISED" /\ IsFailure(viz_result))
         => /\ pending # << >>
            /\ Head(pending).name = PyStr("execute_sql_query")

C8_Witness ==
    /\ pc = "DONE"
    /\ viz_result = NoFigOutcome
    /\ output.visualisation = None

\* C9: a call of execute_sql_query with blank or absent SQL text returns the
\* input-error outcome; it opens no connection and executes no statement.
C9_BlankSqlIsInputError ==
    [][ (sql_calls' = sql_calls + 1 /\ ~Truthy(sql_query'))
        => /\ sql_out' = InputError
           /\ conn_opened' = conn_opened
           /\ conn_open' = conn_open
           /\ executed' = executed ]_vars

C9_Witness ==
    /\ sql_calls > 0
    /\ sql_query = PyStr("")
    /\ sql_out = InputError
    /\ conn_opened = 0

\* C10: a statement that executes successfully yields a Query Result, never an
\* error outcome, holding exactly the first min(n, 1000) of the n rows the query
\* produces, in order.
C10_RowCap ==
    (sql_calls > 0 /\ Truthy(sql_query) /\ ~Engine(sql_query.s).raises)
    => \/ sql_out = ConnectError
       \/ /\ IsQueryResult(sql_out)
          /\ LET all == Engine(sql_query.s).rows
                 rows == sql_out.result_df.rows
             IN  /\ Len(rows) <= 1000
                 /\ Len(rows) = Min(Len(all), 1000)
                 /\ \A i \in 1..Len(rows) : rows[i] = all[i]

C10_Witness ==
    /\ sql_query = PyStr(SQL_ALL)
    /\ IsQueryResult(sql_out)
    /\ Len(sql_out.result_df.rows) = 1000
    /\ Len(Engine(SQL_ALL).rows) > 1000

\* C11: execute_sql_query closes the connection it opens on every invocation:
\* after any sequence of invocations no connection it opened remains open.
C11_NoConnectionLeftOpen ==
    /\ conn_open = 0
    /\ conn_opened <= sql_calls

\* C12: every invocation of execute_sql_query returns exactly one of an error
\* outcome and a success outcome; an engine failure is returned as an error
\* outcome carrying the engine's message.
C12_AlwaysAnOutcome ==
    sql_calls > 0
    => /\ DOMAIN sql_out \in { { "error" }, { "result_df" } }
       /\ ~Truthy(sql_query) => sql_out = InputError
       /\ (Truthy(sql_query) /\ Engine(sql_query.s).raises)
            => sql_out \in { ExecutionError(Engine(sql_query.s).error), ConnectError }
       /\ (Truthy(sql_query) /\ ~Engine(sql_query.s).raises)
            => (IsQueryResult(sql_out) \/ sql_out = ConnectError)

C12_Witness ==
    /\ sql_calls > 0
    /\ sql_query = PyStr(SQL_MISSING)
    /\ sql_out = ExecutionError("Catalog Error: Table no_such_table does not exist")

\* C13: DONE is entered only from AWAITING_MODEL, on a response with no tool
\* invocation requests, and such a response always enters it with an output; a
\* response with requests enters DISPATCHING_TOOLS with all its requests, which
\* are dispatched one by one in order, the loop returning to AWAITING_MODEL
\* exactly when the last is dispatched.
C13_LoopStateMachine ==
    [][ /\ (pc # "DONE" /\ pc' = "DONE")
             => /\ pc = "AWAITING_MODEL"
                /\ Last(messages').tool_calls = << >>
                /\ output' # None
        /\ (pc = "AWAITING_MODEL" /\ round_trips' = round_trips + 1)
             => /\ IsAssistant(Last(messages'))
                /\ IF Last(messages').tool_calls = << >>
                   THEN pc' = "DONE"
                   ELSE /\ pc' = "DISPATCHING_TOOLS"
                        /\ pending' = Last(messages').tool_calls
        /\ pc = "DISPATCHING_TOOLS"
             => /\ pc' \in { "DISPATCHING_TOOLS", "AWAITING_MODEL" }
                /\ pending' \in { pending, Tail(pending) }
                /\ pc' = "AWAITING_MODEL" <=> pending' = << >> ]_vars

\* The Query Result retained by the latest execute_sql_query dispatch among the
\* first n messages of the transcript, None when there is none.
LatestQueryResult(n) ==
    LET qs == { i \in 1..n : QueryResultAt(i) }
    IN  IF qs = { }
        THEN None
        ELSE messages[CHOOSE i \in qs : \A j \in qs : j <= i].content.json

\* C14: while a chart request is being served, the Chart Generator works on the
\* Query Result of the latest execute_sql_query dispatch before it, which is what
\* the latest execute_sql_query call returned; never on an earlier one.
C14_ChartUsesLatestResult ==
    vpc # "idle"
    => /\ sql_result = LatestQueryResult(Len(messages))
       /\ sql_result = (IF sql_calls = 0 THEN None ELSE sql_out)
       /\ vmessages[1].content.prompt = json_dumps(sql_result)

C14_Witness ==
    /\ vpc = "loop"
    /\ vcalls = 1
    /\ sql_calls = 2
    /\ IsQueryResult(sql_result)
    /\ \E i \in DOMAIN messages :
         /\ QueryResultAt(i)
         /\ messages[i].content.json # sql_result

\* s is a prefix of t.
IsPrefix(s, t) ==
    /\ Len(s) <= Len(t)
    /\ SubSeq(t, 1, Len(s)) = s

\* The message lines 182-185 build from an attempt's error and code.
Feedback(error, failing) ==
    [role |-> "user", content |-> [error |-> error, code |-> failing]]

\* C15: in execute_visualisation_code the conversation is the prompt followed by
\* one feedback message per failed attempt, in order, each holding that attempt's
\* error and code; every model request carries the whole conversation so far; a
\* failed attempt appends exactly its feedback and nothing else changes the
\* conversation.
C15_FeedbackAccumulates ==
    /\ [](vpc # "idle"
            => /\ Len(vmessages) = 1 + Cardinality({ i \in DOMAIN attempts :
                                                       ~attempts[i].success })
               /\ vmessages[1].content.prompt = json_dumps(sql_result)
               /\ \A i \in DOMAIN attempts :
                    ~attempts[i].success
                      => vmessages[i + 1].content.error = attempts[i].error
               /\ vcalls > 0 => vsent = SubSeq(vmessages, 1, vcalls))
    /\ [][ /\ vcalls' = vcalls + 1
                => /\ vsent' = vmessages
                   /\ IF IsFailure(result')
                      THEN vmessages' = Append(vmessages, Feedback(result'.error, code'))
                      ELSE vmessages' = vmessages
           /\ (vpc # "idle" /\ vpc' # "idle") => IsPrefix(vmessages, vmessages') ]_vars

C15_Witness ==
    /\ vpc = "loop"
    /\ vcalls = 3
    /\ Len(vsent) = 3
    /\ Len(vmessages) = 4
    /\ vmessages[2].content.code # vmessages[3].content.code
    /\ vmessages[4] = Feedback("", CODE_ASSERT)

\* C16: the transcript starts with the system message and the user question;
\* every step leaves the previous transcript as a prefix of the new one; every
\* model call is sent the whole transcript as it stands and appends the response.
C16_TranscriptAppendOnly ==
    /\ [](/\ Len(messages) >= 2
          /\ messages[1] = [role |-> "system", content |-> PyStr(SystemPrompt)]
          /\ messages[2].role = "user"
          /\ messages[2].content \in { PyStr(u) : u \in UserInputs }
          /\ round_trips > 0
               => /\ IsPrefix(sent, messages)
                  /\ Len(messages) > Len(sent)
                  /\ IsAssistant(messages[Len(sent) + 1]))
    /\ [][ /\ IsPrefix(messages, messages')
           /\ round_trips' = round_trips + 1
                => /\ sent' = messages
                   /\ Len(messages') = Len(messages) + 1
                   /\ IsAssistant(Last(messages')) ]_vars

C16_Witness ==
    /\ round_trips = 2
    /\ Len(sent) = 5
    /\ IsToolMessage(sent[4])
    /\ IsToolMessage(sent[5])
    /\ pc = "DONE"

C18_NoOrphanFiles ==
    \A f \in disk :
        f.suffix = ".png"
            => /\ Path(f.id, "_fig.json") \in disk
               /\ \E i \in DOMAIN issued : issued[i] = f.id

====
